---------------------------- MODULE Spec2Model ----------------------------
(***************************************************************************)
(* Slippi Scatter (src/main.py): a replay is turned into a table of        *)
(* per-frame positions and damage (generate_dataframe), every even row is  *)
(* rendered to <temp_images_dir>/<row>.png (create_images), and the images *)
(* are stitched into Output/<gif_title>.gif and the temp images removed    *)
(* (create_gif, remove_temp_files).  run_analysis calls the three in turn. *)
(*                                                                         *)
(* Python strings are sequences of one-character strings, so that the      *)
(* replace / split / float round trip of generate_dataframe is computed,   *)
(* not assumed.  Numbers are integers (fixed-point units).                 *)
(***************************************************************************)
EXTENDS Integers, Sequences, FiniteSets, TLC

VARIABLES
    temp_images_dir,  \* self.temp_images_dir
    game,             \* self.game: [isNone, frames]
    df,               \* self.df: [isNone, rows]
    slp,              \* what Game(<path>) yields for the replay file on disk
    fs,               \* the file system: directory name -> [exists, files: name -> mtime]
    outputExists,     \* whether the directory Output/ exists
    artifact,         \* Output/<gif_title>.gif: [written, frames]
    clock,            \* the file system's modification-time clock
    pc,               \* position of the run
    row,              \* create_images: the next value of df.index to visit
    frames,           \* create_gif: the opened images, [file, mtime, closed]
    pending,          \* remove_temp_files: the globbed list still to remove
    exc,              \* the exception that ended the run: [type, in, at]
    writeLog,         \* history: the rows whose image was written, in order
    visitLog,         \* history: the rows create_images visited, in order
    removeLog,        \* history: [dir, file] of every os.remove so far
    listing,          \* history: what create_gif's glob saw: [listed, files]
    fs0,              \* history: the file system when the run started
    df0               \* history: self.df when the run started

vars == <<temp_images_dir, game, df, slp, fs, outputExists, artifact, clock, pc,
          row, frames, pending, exc, writeLog, visitLog, removeLog, listing, fs0, df0>>

---------------------------------------------------------------------------
(* Bounds of the model *)

\* longest replay of the pipeline specification
MaxFrames == 5

\* longest replay of the extraction specification
MaxReplayLen == 2

---------------------------------------------------------------------------
(* Python string helpers *)

Digits == <<"0", "1", "2", "3", "4", "5", "6", "7", "8", "9">>

IsDigit(c) == \E i \in 1..10 : Digits[i] = c

DigitVal(c) == (CHOOSE i \in 1..10 : Digits[i] = c) - 1

\* str(n) for a natural number
RECURSIVE NatRepr(_)
NatRepr(n) == IF n < 10 THEN <<Digits[n + 1]>>
              ELSE NatRepr(n \div 10) \o <<Digits[(n % 10) + 1]>>

\* the decimal text of an integer
NumRepr(n) == IF n < 0 THEN <<"-">> \o NatRepr(0 - n) ELSE NatRepr(n)

\* str(frame.ports[k].leader.pre.position): "(x, y)"
PositionRepr(x, y) == <<"(">> \o NumRepr(x) \o <<",", " ">> \o NumRepr(y) \o <<")">>

\* s.replace(c, '')
Replace(s, c) == SelectSeq(s, LAMBDA ch : ch # c)

\* x.replace('(', '').replace(')', '')
CleanBrackets(s) == Replace(Replace(s, "("), ")")

\* index of the first ", " in s, 0 when there is none
SepAt(s) == IF \E i \in 1..(Len(s) - 1) : s[i] = "," /\ s[i + 1] = " "
            THEN CHOOSE i \in 1..(Len(s) - 1) :
                    /\ s[i] = "," /\ s[i + 1] = " "
                    /\ \A j \in 1..(i - 1) : ~(s[j] = "," /\ s[j + 1] = " ")
            ELSE 0

\* s.split(', ')
RECURSIVE Split(_)
Split(s) == IF SepAt(s) = 0 THEN <<s>>
            ELSE <<SubSeq(s, 1, SepAt(s) - 1)>> \o Split(SubSeq(s, SepAt(s) + 2, Len(s)))

\* s.strip() as float() applies it
RECURSIVE LStrip(_)
LStrip(s) == IF s # <<>> /\ Head(s) = " " THEN LStrip(Tail(s)) ELSE s

RECURSIVE RStrip(_)
RStrip(s) == IF s # <<>> /\ s[Len(s)] = " " THEN RStrip(SubSeq(s, 1, Len(s) - 1)) ELSE s

Strip(s) == RStrip(LStrip(s))

RECURSIVE DigitsVal(_)
DigitsVal(s) == IF s = <<>> THEN 0
                ELSE 10 * DigitsVal(SubSeq(s, 1, Len(s) - 1)) + DigitVal(s[Len(s)])

AllDigits(s) == s # <<>> /\ \A i \in 1..Len(s) : IsDigit(s[i])

\* float(s) of a string: [ok, val]; ok = FALSE is ValueError
ParseFloat(s) ==
    LET t == Strip(s)
        signed == t # <<>> /\ Head(t) \in {"-", "+"}
        body == IF signed THEN Tail(t) ELSE t
    IN  IF AllDigits(body)
        THEN [ok |-> TRUE,
              val |-> IF signed /\ Head(t) = "-" THEN 0 - DigitsVal(body) ELSE DigitsVal(body)]
        ELSE [ok |-> FALSE, val |-> 0]

\* float(v) of a damage value: a number is kept, a string is parsed
FloatOf(d) == IF d.kind = "float" THEN [ok |-> TRUE, val |-> d.val] ELSE ParseFloat(d.text)

---------------------------------------------------------------------------
(* The replay, as py-slippi exposes it *)

\* player 1 is index[2], player 2 is index[3] of frame.ports
P1Port == 2

\* faulty variant: player 2 is read from player 1's port
P2PortCopied == P1Port

P2Port == 3

NoFault == "none"

Float(v) == [kind |-> "float", val |-> v, text |-> <<>>]

Text(t) == [kind |-> "str", val |-> 0, text |-> t]

\* an unused port: frame.ports[k] is None
AbsentPort == [present |-> FALSE, position |-> <<>>, damage |-> Float(0)]

Port(position, damage) == [present |-> TRUE, position |-> position, damage |-> damage]

\* a frame of a two-player game on ports 2 and 3
Frame(a, b) == [ports |-> [k \in 0..3 |-> IF k = 2 THEN a ELSE IF k = 3 THEN b ELSE AbsentPort]]

NoneGame == [isNone |-> TRUE, frames |-> <<>>]

GameOf(fr) == [isNone |-> FALSE, frames |-> fr]

NoneDf == [isNone |-> TRUE, rows |-> <<>>]

---------------------------------------------------------------------------
(* generate_dataframe *)

\* the first fault of a sequence of faults, NoFault when there is none
FirstFault(faults) ==
    IF \E i \in 1..Len(faults) : faults[i] # NoFault
    THEN faults[CHOOSE i \in 1..Len(faults) :
                   faults[i] # NoFault /\ \A j \in 1..(i - 1) : faults[j] = NoFault]
    ELSE NoFault

\* the loop body for one frame: .leader of a missing port, float() of a damage
AppendFault(frame) ==
    FirstFault(<<
        IF frame.ports[P1Port].present THEN NoFault ELSE "AttributeError",
        IF frame.ports[P2Port].present THEN NoFault ELSE "AttributeError",
        IF FloatOf(frame.ports[P1Port].damage).ok THEN NoFault ELSE "ValueError",
        IF FloatOf(frame.ports[P2Port].damage).ok THEN NoFault ELSE "ValueError" >>)

\* float(x.split(', ')[k]) for the 0-based k of the source
ComponentFault(cleaned, k) ==
    LET parts == Split(cleaned)
    IN  IF Len(parts) < k + 1 THEN "IndexError"
        ELSE IF ParseFloat(parts[k + 1]).ok THEN NoFault ELSE "ValueError"

Component(cleaned, k) == ParseFloat(Split(cleaned)[k + 1]).val

\* df.<col>.apply(...) over all rows, in row order
ColumnFault(cells, k) == FirstFault([i \in 1..Len(cells) |-> ComponentFault(cells[i], k)])

\* the exception generate_dataframe raises on replay g, NoFault when it returns
GenerateFault(g) ==
    LET n  == Len(g.frames)
        lp == FirstFault([i \in 1..n |-> AppendFault(g.frames[i])])
        P1 == [i \in 1..n |-> CleanBrackets(g.frames[i].ports[P1Port].position)]
        P2 == [i \in 1..n |-> CleanBrackets(g.frames[i].ports[P2Port].position)]
    IN  IF lp # NoFault THEN lp
        ELSE FirstFault(<<ColumnFault(P1, 0), ColumnFault(P1, 1),
                          ColumnFault(P2, 0), ColumnFault(P2, 1)>>)

\* one row of the table; its index in df.index is its place in the sequence minus one
RowOf(frame) ==
    LET P1 == CleanBrackets(frame.ports[P1Port].position)
        P2 == CleanBrackets(frame.ports[P2Port].position)
    IN  [P1 |-> P1, P2 |-> P2,
         P1_x |-> Component(P1, 0), P1_y |-> Component(P1, 1),
         P2_x |-> Component(P2, 0), P2_y |-> Component(P2, 1),
         P1_damage |-> FloatOf(frame.ports[P1Port].damage).val,
         P2_damage |-> FloatOf(frame.ports[P2Port].damage).val]

\* the table generate_dataframe builds from replay g when nothing raises
Dataframe(g) == [isNone |-> FALSE, rows |-> [i \in 1..Len(g.frames) |-> RowOf(g.frames[i])]]

---------------------------------------------------------------------------
(* The file system *)

\* the directory remove_temp_files globs, and another one a caller may configure
DirNames == {"Temp_images", "Scratch"}

FileName(stem, ext) == [stem |-> stem, ext |-> ext]

File(stem, ext, t) == [name |-> FileName(stem, ext), mtime |-> t]

\* f"{self.temp_images_dir}/{row}.png"
ImageName(r) == FileName(ToString(r), "png")

MissingDir == [exists |-> FALSE, files |-> {}]

Dir(files) == [exists |-> TRUE, files |-> files]

\* glob.glob(f"{d}/*.png"): nothing when d does not exist
GlobPng(d) == {f \in fs[d].files : f.name.ext = "png"}

\* glob.glob(f"{d}/*")
GlobAll(d) == fs[d].files

\* writing <name> into directory d at time t creates or overwrites it
WriteFile(d, name, t) ==
    [fs EXCEPT ![d].files = {f \in @ : f.name # name} \cup {[name |-> name, mtime |-> t]}]

\* os.remove of one globbed file
RemoveFile(d, f) == [fs EXCEPT ![d].files = {g \in @ : g.name # f.name}]

\* the orders in which a set of files can be listed
Orderings(S) ==
    {o \in [1..Cardinality(S) -> S] : \A i, j \in 1..Cardinality(S) : i # j => o[i] # o[j]}

\* faulty variant: the images are taken in listing order, the sort is dropped
ListingOrder(o) == TRUE

\* sorted(images, key=os.path.getmtime): ascending, ties left in listing order
SortedByMtime(o) == \A i, j \in 1..Len(o) : i < j => o[i].mtime <= o[j].mtime

NoExc == [type |-> NoFault, in |-> "none", at |-> 0]

Raise(type, at) == [type |-> type, in |-> pc, at |-> at]

NoArtifact == [written |-> FALSE, frames |-> <<>>]

NoListing == [listed |-> FALSE, files |-> {}]

---------------------------------------------------------------------------
(* The operations of SlippiScatter *)

\* set_game: self.game = Game(slippi_file)
SetGame ==
    /\ pc = "idle"
    /\ slp.readable
    /\ game' = GameOf(slp.frames)
    /\ UNCHANGED <<fs0, df0, temp_images_dir, df, slp, fs, outputExists, artifact, clock, pc, row,
                   frames, pending, exc, writeLog, visitLog, removeLog, listing>>

\* run_analysis up to its first call: the game is loaded unless it is set
RunAnalysis ==
    /\ pc = "idle"
    /\ IF game.isNone /\ ~slp.readable
       THEN /\ pc' = "raised"
            /\ exc' = Raise("ParseError", 0)
            /\ game' = game
       ELSE /\ pc' = "generate_dataframe"
            /\ exc' = exc
            /\ game' = IF game.isNone THEN GameOf(slp.frames) ELSE game
    /\ UNCHANGED <<fs0, df0, temp_images_dir, df, slp, fs, outputExists, artifact, clock, row,
                   frames, pending, writeLog, visitLog, removeLog, listing>>

\* faulty variant: run_analysis calls create_gif right after generate_dataframe
AfterGenerateSkipsImages == "create_gif"

\* the stage run_analysis enters when generate_dataframe returns
AfterGenerate == "create_images"

\* faulty variant: the table is built in self.df itself, so a failure leaves it half built
GenerateDataframeInPlace ==
    /\ pc = "generate_dataframe"
    /\ IF GenerateFault(game) # NoFault
       THEN /\ pc' = "raised"
            /\ exc' = Raise(GenerateFault(game), 0)
            /\ df' = [isNone |-> FALSE, rows |-> <<>>]
       ELSE /\ pc' = "create_images"
            /\ exc' = exc
            /\ df' = Dataframe(game)
    /\ UNCHANGED <<fs0, df0, temp_images_dir, game, slp, fs, outputExists, artifact, clock, row,
                   frames, pending, writeLog, visitLog, removeLog, listing>>

\* generate_dataframe: the table replaces self.df only when nothing raised
GenerateDataframe ==
    /\ pc = "generate_dataframe"
    /\ IF GenerateFault(game) # NoFault
       THEN /\ pc' = "raised"
            /\ exc' = Raise(GenerateFault(game), 0)
            /\ df' = df
       ELSE /\ pc' = AfterGenerate
            /\ exc' = exc
            /\ df' = Dataframe(game)
    /\ UNCHANGED <<fs0, df0, temp_images_dir, game, slp, fs, outputExists, artifact, clock, row,
                   frames, pending, writeLog, visitLog, removeLog, listing>>

\* faulty variant: the odd rows are rendered and the even ones skipped
SkippedEven(r) == r % 2 # 1

\* "if row % 2 != 0: continue"
Skipped(r) == r % 2 # 0

\* the stage run_analysis enters when create_images returns
AfterImages == "create_gif"

\* faulty variant: a failed plt.savefig is caught, noted, and the loop goes on
SaveFigSkipped(type) ==
    /\ pc' = pc
    /\ exc' = Raise(type, row)
    /\ row' = row + 1
    /\ UNCHANGED <<fs, clock, writeLog>>

\* what a failed plt.savefig does to the run: the exception leaves run_analysis
SaveFigFailed(type) ==
    /\ pc' = "raised"
    /\ exc' = Raise(type, row)
    /\ UNCHANGED <<fs, clock, writeLog, row>>

\* create_images: one iteration of "for row in self.df.index"
CreateImages ==
    /\ pc = "create_images"
    /\ IF row >= Len(df.rows)
       THEN /\ pc' = AfterImages
            /\ UNCHANGED <<fs, clock, exc, writeLog, visitLog, row>>
       ELSE /\ visitLog' = Append(visitLog, row)
            /\ IF Skipped(row)
               THEN /\ row' = row + 1
                    /\ UNCHANGED <<fs, clock, exc, writeLog, pc>>
               ELSE IF ~fs[temp_images_dir].exists
               THEN SaveFigFailed("FileNotFoundError")
               ELSE \/ SaveFigFailed("OSError")
                    \/ \E t \in {clock, clock + 1} :
                          /\ fs' = WriteFile(temp_images_dir, ImageName(row), t)
                          /\ clock' = t
                          /\ writeLog' = Append(writeLog, row)
                          /\ row' = row + 1
                          /\ UNCHANGED <<exc, pc>>
    /\ UNCHANGED <<fs0, df0, temp_images_dir, game, df, slp, outputExists, artifact,
                   frames, pending, removeLog, listing>>

\* create_gif, lines 45-49: glob the images, sort by mtime, open each
CreateGifOpen ==
    /\ pc = "create_gif"
    /\ \E o \in Orderings(GlobPng(temp_images_dir)) :
          /\ SortedByMtime(o)
          /\ frames' = [i \in 1..Len(o) |-> [file |-> o[i], closed |-> FALSE]]
    /\ listing' = [listed |-> TRUE, files |-> GlobPng(temp_images_dir)]
    /\ pc' = "save"
    /\ UNCHANGED <<fs0, df0, temp_images_dir, game, df, slp, fs, outputExists, artifact, clock,
                   row, pending, exc, writeLog, visitLog, removeLog>>

\* the stage create_gif enters when frames[0].save returns
AfterSave == "close"

\* create_gif, lines 54-55: frames[0].save(..., append_images=frames[1:])
CreateGifSave ==
    /\ pc = "save"
    /\ \/ /\ frames = <<>>
          /\ pc' = "raised"
          /\ exc' = Raise("IndexError", 0)
          /\ artifact' = artifact
       \/ /\ frames # <<>>
          /\ ~outputExists
          /\ pc' = "raised"
          /\ exc' = Raise("FileNotFoundError", 0)
          /\ artifact' = artifact
       \/ /\ frames # <<>>
          /\ outputExists
          /\ pc' = "raised"
          /\ exc' = Raise("OSError", 0)
          /\ artifact' = artifact
       \/ /\ frames # <<>>
          /\ outputExists
          /\ pc' = AfterSave
          /\ exc' = exc
          /\ artifact' = [written |-> TRUE,
                          frames |-> <<frames[1].file>>
                                     \o [i \in 1..(Len(frames) - 1) |-> frames[i + 1].file]]
    /\ UNCHANGED <<fs0, df0, temp_images_dir, game, df, slp, fs, outputExists, clock, row,
                   frames, pending, writeLog, visitLog, removeLog, listing>>

AllClosed == \A i \in 1..Len(frames) : frames[i].closed

\* create_gif, lines 61-62: "for frame in frames: frame.close()", one frame a step
CloseFrames ==
    /\ pc = "close"
    /\ IF AllClosed
       THEN /\ pc' = "remove_temp_files"
            /\ frames' = frames
       ELSE /\ pc' = pc
            /\ frames' = [frames EXCEPT ![CHOOSE i \in 1..Len(frames) :
                                             /\ ~frames[i].closed
                                             /\ \A j \in 1..(i - 1) : frames[j].closed]
                                          .closed = TRUE]
    /\ UNCHANGED <<fs0, df0, temp_images_dir, game, df, slp, fs, outputExists, artifact, clock,
                   row, pending, exc, writeLog, visitLog, removeLog, listing>>

\* the directory remove_temp_files globs: glob.glob('Temp_images/*')
RemovedDir == "Temp_images"

\* remove_temp_files, line 154: the files to remove
RemoveTempFilesGlob ==
    /\ pc = "remove_temp_files"
    /\ pending' = IF fs[RemovedDir].exists THEN GlobAll(RemovedDir) ELSE {}
    /\ pc' = "removing"
    /\ UNCHANGED <<fs0, df0, temp_images_dir, game, df, slp, fs, outputExists, artifact, clock,
                   row, frames, exc, writeLog, visitLog, removeLog, listing>>

\* remove_temp_files, lines 155-156: "for f in files: os.remove(f)", one file a step
RemoveTempFiles ==
    /\ pc = "removing"
    /\ IF pending = {}
       THEN /\ pc' = "done"
            /\ UNCHANGED <<fs, pending, removeLog>>
       ELSE \E f \in pending :
               /\ fs' = RemoveFile(RemovedDir, f)
               /\ pending' = pending \ {f}
               /\ removeLog' = removeLog \cup {[dir |-> RemovedDir, file |-> f]}
               /\ pc' = pc
    /\ UNCHANGED <<fs0, df0, temp_images_dir, game, df, slp, outputExists, artifact, clock,
                   row, frames, exc, writeLog, visitLog, listing>>

---------------------------------------------------------------------------
(* The pipeline specification: one run of run_analysis *)

\* frame i of the example match: player 1 walks, player 2 stands at (10, 10)
\* and has taken 50 damage at frame 2
MatchFrame(i) ==
    Frame(Port(PositionRepr(i, 0 - i), Float(0)),
          Port(PositionRepr(10, 10), Float(IF i = 2 THEN 50 ELSE 0)))

Match(n) == [i \in 1..n |-> MatchFrame(i - 1)]

\* a replay whose second player's port is unused in its last frame
BrokenMatch == Append(Match(1), Frame(Port(PositionRepr(1, -1), Float(0)), AbsentPort))

Readable(fr) == [readable |-> TRUE, frames |-> fr]

Unreadable == [readable |-> FALSE, frames |-> <<>>]

PipelineFiles ==
    {Readable(Match(n)) : n \in 0..MaxFrames} \cup {Readable(BrokenMatch), Unreadable}

\* what a temp directory may hold before the run
Listings ==
    { MissingDir,
      Dir({}),
      Dir({File("2", "png", 1)}),
      Dir({File("0", "png", 1), File("old", "png", 1)}),
      Dir({File("0", "png", 1), File("old", "png", 2)}),
      Dir({File("notes", "txt", 1)}) }

MaxOf(S) == IF S = {} THEN 0
            ELSE LET x == CHOOSE y \in S : \A z \in S : z <= y IN x

NewestMtime(f) == MaxOf({x.mtime : x \in UNION {f[d].files : d \in DirNames}})

InitObject ==
    /\ artifact = NoArtifact
    /\ pc = "idle"
    /\ row = 0
    /\ frames = <<>>
    /\ pending = {}
    /\ exc = NoExc
    /\ writeLog = <<>>
    /\ visitLog = <<>>
    /\ removeLog = {}
    /\ listing = NoListing

Init ==
    /\ temp_images_dir \in DirNames
    /\ slp \in PipelineFiles
    /\ fs \in [DirNames -> Listings]
    /\ temp_images_dir = RemovedDir => fs["Scratch"] = MissingDir
    /\ outputExists \in BOOLEAN
    /\ clock = NewestMtime(fs)
    /\ fs0 = fs
    /\ game = NoneGame
    /\ df = NoneDf
    /\ df0 = df
    /\ InitObject

Next ==
    \/ SetGame
    \/ RunAnalysis
    \/ GenerateDataframe
    \/ CreateImages
    \/ CreateGifOpen
    \/ CreateGifSave
    \/ CloseFrames
    \/ RemoveTempFilesGlob
    \/ RemoveTempFiles

Spec == Init /\ [][Next]_vars

---------------------------------------------------------------------------
(* The extraction specification: generate_dataframe on well-formed and     *)
(* malformed replays                                                       *)

WellFormedPorts ==
    { Port(PositionRepr(3, -10), Float(50)),
      Port(PositionRepr(0, 7), Text(<<"1", "2">>)) }

MalformedPorts ==
    { AbsentPort,
      Port(<<"(", "3", ")">>, Float(0)),
      Port(<<"3", ",", "-", "1", "0">>, Float(0)),
      Port(<<"(", "3", ",", " ", "-", "1", "0", ",", " ", "5", ")">>, Float(0)),
      Port(<<"(", "3", ",", " ", "-", "1", "0", ",", " ", "x", ")">>, Float(0)),
      Port(<<"(", "x", ",", " ", "3", ")">>, Float(0)),
      Port(<<"(", "3", ",", " ", "x", ")">>, Float(0)),
      Port(PositionRepr(3, -10), Text(<<"x">>)) }

\* frames with at most one malformed port
ExtractFrames ==
    {Frame(a, b) : a \in WellFormedPorts, b \in WellFormedPorts}
    \cup {Frame(a, b) : a \in WellFormedPorts, b \in MalformedPorts}
    \cup {Frame(a, b) : a \in MalformedPorts, b \in WellFormedPorts}

ExtractReplays == UNION {[1..n -> ExtractFrames] : n \in 0..MaxReplayLen}

\* the table an earlier call left in self.df
PriorDf == Dataframe(GameOf(Match(1)))

InitExtract ==
    /\ temp_images_dir = RemovedDir
    /\ slp = Unreadable
    /\ fs = [d \in DirNames |-> Dir({})]
    /\ outputExists = TRUE
    /\ clock = 0
    /\ fs0 = fs
    /\ game \in {GameOf(fr) : fr \in ExtractReplays}
    /\ df \in {NoneDf, PriorDf}
    /\ df0 = df
    /\ InitObject

NextExtract ==
    \/ RunAnalysis
    \/ GenerateDataframe

SpecExtract == InitExtract /\ [][NextExtract]_vars

---------------------------------------------------------------------------
(* Vocabulary of the properties *)

\* number of frames of the replay
N == Len(game.frames)

\* the even indices of 0..n-1, ascending: <<0, 2, 4, ...>>
EvenRows(n) == [i \in 1..((n + 1) \div 2) |-> 2 * (i - 1)]

\* the files of the configured temp directory
TempFiles == fs[temp_images_dir].files

TempNames == {f.name : f \in TempFiles}

SeqRange(q) == {q[i] : i \in 1..Len(q)}

DistinctMtimes(S) == \A f, g \in S : f # g => f.mtime # g.mtime

\* create_images has returned
ImagesDone == pc \in {"create_gif", "save", "close", "remove_temp_files", "removing", "done"}
              \/ (pc = "raised" /\ exc.in = "save")

\* run_analysis returned without an error
RunSucceeded == pc = "done"

---------------------------------------------------------------------------
(* Properties of the pipeline, checked under Spec *)

\* C1: after a successful end-to-end run_analysis the configured temp image
\* directory (self.temp_images_dir, whatever it was constructed with) holds
\* zero files.
C1_TempDirEmptyAfterRun == RunSucceeded => TempFiles = {}

\* C2: create_gif on a temp directory holding zero image files ends with an
\* explicit degenerate-input ("nothing to render") error, not with a fault
\* raised inside the assembly step.
C2_EmptyListingIsReported ==
    (listing.listed /\ listing.files = {} /\ pc # "save")
        => (pc = "raised" /\ exc.in = "save" /\ exc.type = "NothingToRender")

\* C4: a create_images run that completes on a replay of N frames has written
\* exactly ceil(N/2) images, one named by each even row index of 0..N-1 and
\* none for an odd index, each once, with the rows visited in ascending order.
C4_EvenRowsRendered ==
    ImagesDone =>
        /\ Len(df.rows) = N
        /\ visitLog = [i \in 1..N |-> i - 1]
        /\ writeLog = EvenRows(N)
        /\ 2 * Len(writeLog) \in {N, N + 1}
        /\ \A i \in 1..Len(writeLog) : writeLog[i] % 2 = 0
        /\ \A i, j \in 1..Len(writeLog) : i # j => writeLog[i] # writeLog[j]
        /\ pc = "create_gif" => \A r \in 0..(N - 1) : r % 2 = 0 => ImageName(r) \in TempNames

C4_Witness ==
    /\ pc = "create_gif"
    /\ N = 3
    /\ writeLog = <<0, 2>>
    /\ visitLog = <<0, 1, 2>>

\* C5: when the temp directory holds K >= 1 image files with pairwise distinct
\* modification times, the artifact create_gif saves has exactly K frames, the
\* K files in ascending modification-time order (not name or frame order).
C5_FramesInMtimeOrder ==
    (pc = "close" /\ DistinctMtimes(GlobPng(temp_images_dir))) =>
        /\ artifact.written
        /\ Len(artifact.frames) = Cardinality(GlobPng(temp_images_dir))
        /\ SeqRange(artifact.frames) = GlobPng(temp_images_dir)
        /\ \A i, j \in 1..Len(artifact.frames) :
              i < j => artifact.frames[i].mtime < artifact.frames[j].mtime

C5_Witness ==
    /\ pc = "close"
    /\ DistinctMtimes(GlobPng(temp_images_dir))
    /\ Len(artifact.frames) = 2
    /\ artifact.frames[1].name = ImageName(2)
    /\ artifact.frames[2].name = ImageName(0)

\* C7: an end-to-end run_analysis on a replay of N >= 1 frames, started with an
\* existing, empty temp directory and an existing output directory, emits an
\* animation of exactly ceil(N/2) frames, the images of the even frame indices
\* in ascending index order, and ends with the temp directory empty.
C7_EndToEnd ==
    (RunSucceeded /\ N >= 1 /\ fs0[temp_images_dir] = Dir({})) =>
        /\ Len(artifact.frames) = (N + 1) \div 2
        /\ [i \in 1..Len(artifact.frames) |-> artifact.frames[i].name]
              = [i \in 1..((N + 1) \div 2) |-> ImageName(2 * (i - 1))]
        /\ TempFiles = {}

\* C8: in create_gif the cleanup follows the save: when saving raises, no temp
\* file is deleted; when it returns, every opened image is closed before any
\* temp file is deleted, and then every file of the temp directory is deleted.
C8_CleanupAfterSave ==
    /\ (pc = "raised" /\ exc.in = "save") => (removeLog = {} /\ listing.files \subseteq TempFiles)
    /\ removeLog # {} => (artifact.written /\ AllClosed)
    /\ RunSucceeded => TempFiles = {}

\* C9: a failed image write for even index i aborts the run: it is not retried,
\* no image for an index above i is rendered, create_gif is never started, no
\* artifact is written, and the images written for indices below i stay in the
\* temp directory.
C9_WriteFailureIsFatal ==
    exc.in = "create_images" =>
        /\ pc = "raised"
        /\ exc.at % 2 = 0
        /\ row = exc.at
        /\ writeLog = EvenRows(exc.at)
        /\ visitLog = [i \in 1..(exc.at + 1) |-> i - 1]
        /\ ~listing.listed
        /\ frames = <<>>
        /\ ~artifact.written
        /\ removeLog = {}
        /\ \A i \in 1..Len(writeLog) : ImageName(writeLog[i]) \in TempNames

C9_Witness ==
    /\ pc = "raised"
    /\ exc.in = "create_images"
    /\ exc.type = "OSError"
    /\ exc.at = 2
    /\ writeLog = <<0>>
    /\ N = 4

\* C10: run_analysis runs extract, render, assemble-and-cleanup in that order,
\* each completing before the next starts: no image is written before the table
\* is complete, the temp directory is not listed before the last eligible frame
\* is written, and no temp file is deleted before the artifact is saved.
C10_StagesInOrder ==
    /\ writeLog # <<>> => (~df.isNone /\ Len(df.rows) = N)
    /\ pc \in {"create_images", "create_gif"} => (~df.isNone /\ Len(df.rows) = N)
    /\ listing.listed => (~df.isNone /\ writeLog = EvenRows(N))
    /\ pc \in {"save", "close", "remove_temp_files", "removing", "done"} => listing.listed
    /\ removeLog # {} => artifact.written
    /\ pc \in {"removing", "done"} => artifact.written

C10_Witness ==
    /\ pc = "done"
    /\ removeLog # {}
    /\ Len(writeLog) = 2
    /\ Len(artifact.frames) >= 2

---------------------------------------------------------------------------
(* Properties of generate_dataframe, checked under SpecExtract *)

\* generate_dataframe has been called and has returned or raised
Generated == pc \notin {"idle", "generate_dataframe"}

Players(frame) == {frame.ports[2], frame.ports[3]}

Components(port) == Split(CleanBrackets(port.position))

LacksSlot(frame) == \E p \in Players(frame) : ~p.present

BadDamage(frame) == \E p \in Players(frame) : p.present /\ ~FloatOf(p.damage).ok

\* some component of the position is not a number
BadComponent(frame) ==
    \E p \in Players(frame) :
        p.present /\ \E k \in 1..Len(Components(p)) : ~ParseFloat(Components(p)[k]).ok

\* one of the first two components of the position is not a number
BadLeadingComponent(frame) ==
    \E p \in Players(frame) :
        p.present /\ \E k \in 1..Len(Components(p)) : k <= 2 /\ ~ParseFloat(Components(p)[k]).ok

NotTwoComponents(frame) == \E p \in Players(frame) : p.present /\ Len(Components(p)) # 2

FewerThanTwoComponents(frame) == \E p \in Players(frame) : p.present /\ Len(Components(p)) < 2

\* C3 as stated: generate_dataframe raises for every replay with a frame that
\* lacks port 2 or 3, or whose position does not split into exactly two
\* components, or that has an unparsable number; and then self.df keeps its
\* previous value.
C3_RaisesOnMalformedFrame ==
    (Generated /\ \E i \in 1..N : \/ LacksSlot(game.frames[i])
                                  \/ NotTwoComponents(game.frames[i])
                                  \/ BadDamage(game.frames[i])
                                  \/ BadComponent(game.frames[i]))
        => (pc = "raised" /\ exc.in = "generate_dataframe" /\ df = df0)

\* C3 amended: generate_dataframe raises for every replay with a frame that
\* lacks port 2 or 3, or whose position splits into fewer than two components,
\* or whose damage or first or second position component is unparsable (the
\* components after the second are never read); whenever it raises, self.df
\* keeps its previous value.
C3_RaisesOnUnusableFrame ==
    /\ (Generated /\ \E i \in 1..N : \/ LacksSlot(game.frames[i])
                                     \/ FewerThanTwoComponents(game.frames[i])
                                     \/ BadDamage(game.frames[i])
                                     \/ BadLeadingComponent(game.frames[i]))
           => (pc = "raised" /\ exc.in = "generate_dataframe")
    /\ (pc = "raised" /\ exc.in = "generate_dataframe") => df = df0

C3_Witness ==
    /\ pc = "raised"
    /\ exc.type = "IndexError"
    /\ N = 2
    /\ ~LacksSlot(game.frames[1]) /\ ~NotTwoComponents(game.frames[1])
    /\ FewerThanTwoComponents(game.frames[2])
    /\ df0 = PriorDf
    /\ df = PriorDf

\* the coordinates and damages of the well-formed ports
Coords == {-10, 0, 3, 7, 12, 50}

\* the port's position is the text of a 2D position
WellFormed(port) == \E a, b \in Coords : port.position = PositionRepr(a, b)

\* x, y and damage are the position and the damage of the port's player
Holds(x, y, damage, port) ==
    /\ \A a, b \in Coords : port.position = PositionRepr(a, b) => (x = a /\ y = b)
    /\ port.damage.kind = "float" => damage = port.damage.val
    /\ port.damage.kind = "str" =>
          \A d \in Coords : port.damage.text = NumRepr(d) => damage = d

\* C6: for a replay of N >= 1 frames generate_dataframe produces a table of
\* exactly N rows, indexed 0..N-1, row i holding the positions and damages of
\* the i-th frame: player 1 from port 2, player 2 from port 3.
C6_RowsFollowFrames ==
    (Generated /\ pc # "raised" /\ N >= 1) =>
        /\ ~df.isNone
        /\ DOMAIN df.rows = 1..N
        /\ \A i \in 1..N :
              /\ WellFormed(game.frames[i].ports[2]) =>
                    Holds(df.rows[i].P1_x, df.rows[i].P1_y, df.rows[i].P1_damage,
                          game.frames[i].ports[2])
              /\ WellFormed(game.frames[i].ports[3]) =>
                    Holds(df.rows[i].P2_x, df.rows[i].P2_y, df.rows[i].P2_damage,
                          game.frames[i].ports[3])

C6_Witness ==
    /\ pc = "create_images"
    /\ N = 2
    /\ df.rows[1].P1_x = 3 /\ df.rows[1].P1_y = -10 /\ df.rows[1].P1_damage = 50
    /\ df.rows[1].P2_x = 0 /\ df.rows[1].P2_y = 7 /\ df.rows[1].P2_damage = 12
    /\ df.rows[2].P1_x = 0 /\ df.rows[2].P2_x = 3

===========================================================================
